---- MODULE Spec2Model ----
(***************************************************************************)
(* Model of the ExampleSoft support agent (src/reference/solution.py):     *)
(* the seven tools SupportAgent registers, the results their handlers      *)
(* return, and the per-conversation global data those results patch.       *)
(*                                                                         *)
(* Strings are TLA+ strings; Len, \o and SubSeq act on them character by   *)
(* character, which is what str.lower(), the "in" substring test and       *)
(* strftime need.  A Python dict is a function from its keys; an optional  *)
(* value is a set with at most one element.                                *)
(***************************************************************************)
EXTENDS Integers, Sequences, FiniteSets, TLC

VARIABLES
    global_data,   \* the conversation's global data (a dict)
    result,        \* the result of the last tool invocation
    last,          \* the last invocation: tool, args, HTTP requests sent and
                   \* their outcome, keys whose value the patch replaced
    lastPatch      \* history: for each tool, the patch of its latest invocation

vars == <<global_data, result, last, lastPatch>>

----------------------------------------------------------------------------
(* Bounds of the model.                                                    *)

\* An issue text is one of ExplicitIssues or at most MaxWords vocabulary words.
MaxWords == 3

----------------------------------------------------------------------------
(* Python helpers.                                                         *)

EmptyDict == [k \in {} |-> ""]

\* dict.get(key, default)
Get(d, key, default) == IF key \in DOMAIN d THEN d[key] ELSE default

\* One character of str.lower(): the upper-case ASCII letters map to lower case.
LowerChar(c) ==
    LET upper == "ABCDEFGHIJKLMNOPQRSTUVWXYZ"
        lower == "abcdefghijklmnopqrstuvwxyz"
        hit == {i \in 1..Len(upper) : SubSeq(upper, i, i) = c}
    IN  IF hit = {} THEN c
        ELSE LET i == CHOOSE j \in hit : TRUE IN SubSeq(lower, i, i)

\* str.lower()
RECURSIVE Lower(_)
Lower(s) ==
    IF Len(s) = 0 THEN ""
    ELSE LowerChar(SubSeq(s, 1, 1)) \o Lower(SubSeq(s, 2, Len(s)))

\* word in text  (substring test)
Contains(text, word) ==
    \E i \in 1..(Len(text) - Len(word) + 1) :
        SubSeq(text, i, i + Len(word) - 1) = word

\* One decimal digit as a character.
DigitChar(d) == SubSeq("0123456789", d + 1, d + 1)

\* n in decimal, zero-padded to at least width characters ("%0<width>d").
RECURSIVE Pad(_, _)
Pad(n, width) ==
    IF n < 10 /\ width <= 1 THEN DigitChar(n)
    ELSE Pad(n \div 10, width - 1) \o DigitChar(n % 10)

\* Mutant of Strftime: the fields printed without zero padding.
Strftime_Unpadded(t) ==
    Pad(t.year, 1) \o Pad(t.month, 1) \o Pad(t.day, 1)
        \o Pad(t.hour, 1) \o Pad(t.minute, 1) \o Pad(t.second, 1)

\* datetime.strftime('%Y%m%d%H%M%S'): the C library prints %Y unpadded and
\* the other five fields as two digits.
Strftime(t) ==
    Pad(t.year, 1) \o Pad(t.month, 2) \o Pad(t.day, 2)
        \o Pad(t.hour, 2) \o Pad(t.minute, 2) \o Pad(t.second, 2)

\* datetime.isoformat(): YYYY-MM-DDTHH:MM:SS, then .ffffff unless microsecond = 0.
Isoformat(t) ==
    Pad(t.year, 4) \o "-" \o Pad(t.month, 2) \o "-" \o Pad(t.day, 2) \o "T"
        \o Pad(t.hour, 2) \o ":" \o Pad(t.minute, 2) \o ":" \o Pad(t.second, 2)
        \o (IF t.microsecond = 0 THEN "" ELSE "." \o Pad(t.microsecond, 6))

\* What datetime.now() can return: wall-clock readings (not monotonic).
Times ==
    { [year |-> 2026, month |-> 1, day |-> 5, hour |-> 0, minute |-> 7,
       second |-> 9, microsecond |-> 0],
      [year |-> 2027, month |-> 12, day |-> 31, hour |-> 23, minute |-> 59,
       second |-> 59, microsecond |-> 4021] }

----------------------------------------------------------------------------
(* Results.                                                                *)

\* SwaigFunctionResult(text, post_process): no global-data patch and no
\* transfer until update_global_data / swml_transfer add them.
SwaigFunctionResult(text, post_process) ==
    [text |-> text, post_process |-> post_process, kind |-> "ok",
     patch |-> EmptyDict, transfer |-> {}, terminal |-> FALSE]

\* result.update_global_data(data)
update_global_data(r, data) ==
    [r EXCEPT !.patch =
        [k \in DOMAIN r.patch \cup DOMAIN data |->
            IF k \in DOMAIN data THEN data[k] ELSE r.patch[k]]]

\* result.swml_transfer(dest, ai_response, final): the transfer signal; a
\* final transfer ends the conversation's tool loop.
swml_transfer(r, dest, ai_response, final) ==
    [r EXCEPT !.transfer = {[final |-> final, target |-> dest,
                             final_message |-> ai_response]},
              !.terminal = final]

----------------------------------------------------------------------------
(* Declared parameters of the tools.                                       *)

NativeTools ==
    {"installation_help", "troubleshoot", "create_ticket", "report_feedback",
     "escalate_to_human"}

DataMapTools == {"check_license", "check_version"}

Tools == NativeTools \cup DataMapTools

\* The "required" list of each tool's declaration.
Required(tool) ==
    CASE tool = "check_license" -> {"license_key"}
      [] tool = "check_version" -> {"current_version"}
      [] tool = "troubleshoot" -> {"issue"}
      [] tool = "create_ticket" -> {"description"}
      [] tool = "report_feedback" -> {"question", "feedback"}
      [] OTHER -> {}

\* The "enum" of create_ticket's priority parameter.
PriorityEnum == {"low", "medium", "high"}

----------------------------------------------------------------------------
(* Native handlers.                                                        *)

InstallationText ==
    "For installation: Download from our website and run the installer. "
    \o "Windows users should run as Administrator. "
    \o "System requirements: Windows 10+, macOS 10.15+, or Ubuntu 20.04+. "
    \o "8GB RAM minimum, 500MB disk space. "
    \o "Need help with activation or system requirements?"

installation_help(args, raw_data) == SwaigFunctionResult(InstallationText, FALSE)

\* The keyword lists of troubleshoot, in the order the handler tests them.
StartupWords == {"start", "launch", "open", "won't run"}
LicenseWords == {"license", "activate", "key"}
PerformanceWords == {"slow", "performance", "lag"}
PasswordWords == {"password", "login", "forgot"}

StartupResponse ==
    "For startup issues, try: "
    \o "1) Restart your computer, "
    \o "2) Run as administrator (Windows), "
    \o "3) Check for conflicting software, "
    \o "4) Reinstall if needed. "
    \o "Did any of these help?"

LicenseResponse ==
    "For license issues: "
    \o "Check your license at account.example.com. "
    \o "Make sure it hasn't expired and isn't used on too many devices. "
    \o "Would you like me to check your license status?"

PerformanceResponse ==
    "For performance issues: "
    \o "1) Close other applications, "
    \o "2) Verify system requirements (8GB RAM minimum), "
    \o "3) Clear cache (Settings > Advanced > Clear Cache), "
    \o "4) Update to latest version. "
    \o "Which of these would you like help with?"

PasswordResponse ==
    "For password reset: "
    \o "Click 'Forgot Password' on the login screen, "
    \o "enter your email, and check your inbox for a reset link. "
    \o "The link arrives within 5 minutes. "
    \o "Still having trouble?"

GenericResponse ==
    "I'll search our knowledge base for that issue. "
    \o "If I can't find a solution, I can create a support ticket. "
    \o "Could you provide more details about what's happening?"

\* any(word in text for word in words)
AnyWordIn(text, words) == \E word \in words : Contains(text, word)

\* Mutant of troubleshoot: the password rule tested first.
troubleshoot_PasswordFirst(args, raw_data) ==
    LET issue == Get(args, "issue", "")
        issue_lower == Lower(issue)
    IN  IF AnyWordIn(issue_lower, PasswordWords)
            THEN SwaigFunctionResult(PasswordResponse, FALSE)
        ELSE IF AnyWordIn(issue_lower, StartupWords)
            THEN SwaigFunctionResult(StartupResponse, FALSE)
        ELSE IF AnyWordIn(issue_lower, LicenseWords)
            THEN SwaigFunctionResult(LicenseResponse, FALSE)
        ELSE IF AnyWordIn(issue_lower, PerformanceWords)
            THEN SwaigFunctionResult(PerformanceResponse, FALSE)
        ELSE SwaigFunctionResult(GenericResponse, FALSE)

troubleshoot(args, raw_data) ==
    LET issue == Get(args, "issue", "")
        issue_lower == Lower(issue)
    IN  IF AnyWordIn(issue_lower, StartupWords)
            THEN SwaigFunctionResult(StartupResponse, FALSE)
        ELSE IF AnyWordIn(issue_lower, LicenseWords)
            THEN SwaigFunctionResult(LicenseResponse, FALSE)
        ELSE IF AnyWordIn(issue_lower, PerformanceWords)
            THEN SwaigFunctionResult(PerformanceResponse, FALSE)
        ELSE IF AnyWordIn(issue_lower, PasswordWords)
            THEN SwaigFunctionResult(PasswordResponse, FALSE)
        ELSE SwaigFunctionResult(GenericResponse, FALSE)

TicketTail ==
    " priority. "
    \o "Our team will respond within 24 hours for standard issues, "
    \o "or 4 hours for high priority. "
    \o "Is there anything else I can help with?"

\* Mutant of create_ticket: a new ticket also clears the escalation flag.
create_ticket_ResetsEscalated(args, raw_data, now1, now2) ==
    LET description == Get(args, "description", "")
        priority == Get(args, "priority", "medium")
        ticket_id == "TKT-" \o Strftime(now1)
    IN  update_global_data(
            SwaigFunctionResult(
                "Created ticket " \o ticket_id \o " with " \o priority
                    \o TicketTail, FALSE),
            [ticket_id |-> ticket_id,
             ticket_description |-> description,
             ticket_priority |-> priority,
             ticket_created |-> Isoformat(now2),
             escalated |-> FALSE])

\* Mutant of create_ticket: the creation time is left out of the patch.
create_ticket_NoCreated(args, raw_data, now1, now2) ==
    LET description == Get(args, "description", "")
        priority == Get(args, "priority", "medium")
        ticket_id == "TKT-" \o Strftime(now1)
    IN  update_global_data(
            SwaigFunctionResult(
                "Created ticket " \o ticket_id \o " with " \o priority
                    \o TicketTail, FALSE),
            [ticket_id |-> ticket_id,
             ticket_description |-> description,
             ticket_priority |-> priority])

\* now1 and now2 are the two datetime.now() readings the handler takes.
create_ticket(args, raw_data, now1, now2) ==
    LET description == Get(args, "description", "")
        priority == Get(args, "priority", "medium")
        ticket_id == "TKT-" \o Strftime(now1)
    IN  update_global_data(
            SwaigFunctionResult(
                "Created ticket " \o ticket_id \o " with " \o priority
                    \o TicketTail, FALSE),
            [ticket_id |-> ticket_id,
             ticket_description |-> description,
             ticket_priority |-> priority,
             ticket_created |-> Isoformat(now2)])

FeedbackText ==
    "Thank you for the feedback. I've logged this for our team to review. "
    \o "Your input helps us improve. "
    \o "Would you like me to create a ticket for further assistance?"

\* Mutant of report_feedback: the feedback text stored under the ticket's
\* description key.
report_feedback_WritesTicketKey(args, raw_data, now) ==
    LET question == Get(args, "question", "")
        feedback == Get(args, "feedback", "")
    IN  update_global_data(
            SwaigFunctionResult(FeedbackText, FALSE),
            [ticket_description |-> feedback,
             feedback_question |-> question,
             feedback_time |-> Isoformat(now)])

\* Mutant of report_feedback: a ticket id is issued with the feedback.
report_feedback_CreatesTicket(args, raw_data, now) ==
    LET question == Get(args, "question", "")
        feedback == Get(args, "feedback", "")
    IN  update_global_data(
            SwaigFunctionResult(FeedbackText, FALSE),
            [ticket_id |-> "TKT-" \o Strftime(now),
             feedback_question |-> question,
             feedback_time |-> Isoformat(now),
             feedback_content |-> feedback])

report_feedback(args, raw_data, now) ==
    LET question == Get(args, "question", "")
        feedback == Get(args, "feedback", "")
    IN  update_global_data(
            SwaigFunctionResult(FeedbackText, FALSE),
            [feedback_question |-> question,
             feedback_time |-> Isoformat(now),
             feedback_content |-> feedback])

EscalateText ==
    "I'm connecting you with a human support agent. "
    \o "Please hold while I transfer your call."

\* Mutant of escalate_to_human: the context string is put in the text.
escalate_to_human_UsesContext(args, raw_data, now) ==
    LET global == Get(raw_data, "global_data", EmptyDict)
        ticket_id == Get(global, "ticket_id", "")
        context == IF ticket_id # "" THEN "Ticket " \o ticket_id
                   ELSE "New inquiry"
    IN  swml_transfer(
            update_global_data(
                SwaigFunctionResult(EscalateText \o " (" \o context \o ")", TRUE),
                [escalated |-> TRUE, escalation_time |-> Isoformat(now)]),
            "/human-support", "Goodbye!", TRUE)

\* The handler builds context from ticket_id and then does not use it.
escalate_to_human(args, raw_data, now) ==
    LET global == Get(raw_data, "global_data", EmptyDict)
        ticket_id == Get(global, "ticket_id", "")
        context == IF ticket_id # "" THEN "Ticket " \o ticket_id
                   ELSE "New inquiry"
    IN  swml_transfer(
            update_global_data(
                SwaigFunctionResult(EscalateText, TRUE),
                [escalated |-> TRUE, escalation_time |-> Isoformat(now)]),
            "/human-support", "Goodbye!", TRUE)

----------------------------------------------------------------------------
(* DataMap tools: the declarations of _setup_datamaps, and the handler the *)
(* runtime synthesizes from such a declaration.                            *)

Lit(s) == [kind |-> "lit", lit |-> s, path |-> <<>>]
Var(p) == [kind |-> "var", lit |-> "", path |-> p]

check_license_dm ==
    [name |-> "check_license",
     method |-> "GET",
     url |-> <<Lit("https://api.example.com/licenses/"),
               Var(<<"args", "license_key">>)>>,
     output |-> <<Lit("License status: "), Var(<<"status">>),
                  Lit(". Expires: "), Var(<<"expires">>), Lit(".")>>,
     fallback_output |->
        {<<Lit("I couldn't find that license key. Please verify and try again.")>>}]

\* Mutant of check_version_dm: declared without a fallback output.
check_version_dm_NoFallback ==
    [name |-> "check_version",
     method |-> "GET",
     url |-> <<Lit("https://api.example.com/versions/latest")>>,
     output |-> <<Lit("Latest version is "), Var(<<"latest">>),
                  Lit(". You have "), Var(<<"args", "current_version">>),
                  Lit(".")>>,
     fallback_output |-> {}]

check_version_dm ==
    [name |-> "check_version",
     method |-> "GET",
     url |-> <<Lit("https://api.example.com/versions/latest")>>,
     output |-> <<Lit("Latest version is "), Var(<<"latest">>),
                  Lit(". You have "), Var(<<"args", "current_version">>),
                  Lit(".")>>,
     fallback_output |-> {<<Lit("Unable to check version information.")>>}]

\* The value a placeholder path addresses in a scope {args, response}: the
\* response's fields are addressed by their bare name, the call arguments
\* under args; a missing path is the empty string.
Lookup(scope, path) ==
    IF Len(path) = 2 /\ path[1] = "args" THEN Get(scope.args, path[2], "")
    ELSE IF Len(path) = 1 THEN Get(scope.response, path[1], "")
    ELSE ""

\* resolve(template, scope): every ${path} replaced by the value it addresses.
RECURSIVE Resolve(_, _)
Resolve(template, scope) ==
    IF template = <<>> THEN ""
    ELSE LET seg == Head(template)
         IN  (IF seg.kind = "lit" THEN seg.lit ELSE Lookup(scope, seg.path))
                \o Resolve(Tail(template), scope)

\* What the HTTP collaborator can answer.
Outcomes ==
    {"ok", "network_error", "non_success_status", "malformed_payload", "timeout"}

ValidationErrorText == "Missing required parameter."
NoInformationText == "Unable to retrieve information."

\* The arguments carry every required parameter of the descriptor.
ValidArgs(dm, args) == Required(dm.name) \subseteq DOMAIN args

\* The handler built from a descriptor.  It answers [result, requests]:
\* requests is the set of HTTP requests it sent.
DataMapHandler(dm, args, outcome, payload) ==
    IF ~ValidArgs(dm, args)
    THEN [result |-> [SwaigFunctionResult(ValidationErrorText, FALSE)
                        EXCEPT !.kind = "ValidationError"],
          requests |-> {}]
    ELSE LET request == [method |-> dm.method,
                         url |-> Resolve(dm.url, [args |-> args,
                                                  response |-> EmptyDict])]
             text == IF outcome = "ok"
                        THEN Resolve(dm.output, [args |-> args,
                                                 response |-> payload])
                     ELSE IF dm.fallback_output # {}
                        THEN LET t == CHOOSE x \in dm.fallback_output : TRUE
                             IN  Resolve(t, [args |-> args,
                                             response |-> EmptyDict])
                     ELSE NoInformationText
         IN  [result |-> SwaigFunctionResult(text, FALSE),
              requests |-> {request}]

----------------------------------------------------------------------------
(* The conversation: sequential tool invocations against one global state. *)

\* The merge of a result's patch into the global data: key-wise overwrite,
\* new keys inserted, nothing deleted.
Merge(state, patch) ==
    [k \in DOMAIN state \cup DOMAIN patch |->
        IF k \in DOMAIN patch THEN patch[k] ELSE state[k]]

\* All dicts whose keys are some of DOMAIN choices, each key's value drawn
\* from choices[key].
DictsOver(choices) ==
    UNION { {d \in [S -> UNION {choices[k] : k \in S}] :
                \A k \in S : d[k] \in choices[k]} :
            S \in SUBSET DOMAIN choices }

Descriptions == {"X"}
Priorities == {"high", "urgent"}
Questions == {"How do I reset?"}
Feedbacks == {"The link was wrong"}
LicenseKeys == {"ABC-123"}
Versions == {"2.0"}
Payloads ==
    {EmptyDict, [status |-> "active", expires |-> "2027-01-01"],
     [latest |-> "2.1"]}

\* Issue texts the conversation model draws from.
ExplicitIssues ==
    {"my login isn't working", "App won't START",
     "It is SLOW and I forgot my password", "printer jam"}

Vocabulary == {"Login", "KEY", "lag", "won't", "run"}

RECURSIVE Phrases(_)
Phrases(n) ==
    IF n = 0 THEN {""}
    ELSE LET shorter == Phrases(n - 1)
         IN  shorter \cup Vocabulary
                \cup {p \o " " \o w : p \in shorter \ {""}, w \in Vocabulary}

AllIssues == ExplicitIssues \cup Phrases(MaxWords)

\* raw_data as a handler receives it: with the current global data, or
\* without any.  Only escalate_to_human reads it, so only its action draws
\* the shape.
RawDatas == {<<"none">>, <<"global_data">>}
RawData(shape) ==
    IF shape = <<"none">> THEN EmptyDict ELSE [global_data |-> global_data]

Init ==
    /\ global_data = EmptyDict
    /\ result = SwaigFunctionResult("", FALSE)
    /\ last = [tool |-> "none", args |-> EmptyDict, outcome |-> "none",
               requests |-> {}, replaced |-> {}]
    /\ lastPatch = [t \in Tools |-> {}]

\* What the dispatcher records of the invocation it served: the call, the
\* HTTP requests sent and their outcome, and the keys whose value the patch
\* replaced.
Invocation(tool, args, r, requests, outcome) ==
    [tool |-> tool, args |-> args, outcome |-> outcome, requests |-> requests,
     replaced |-> {k \in DOMAIN r.patch \cap DOMAIN global_data :
                     global_data[k] # r.patch[k]}]

\* The history of patches after tool returned r.
Patched(tool, r) ==
    IF DOMAIN r.patch = {} THEN lastPatch
    ELSE [lastPatch EXCEPT ![tool] = {r.patch}]

\* Every action below is one invocation: the handler runs and returns r, the
\* dispatcher merges r's patch into the global data and hands r back.

InvokeInstallationHelp ==
    \E r \in {installation_help(EmptyDict, RawData(<<"global_data">>))} :
        /\ global_data' = Merge(global_data, r.patch)
        /\ result' = r
        /\ last' = Invocation("installation_help", EmptyDict, r, {}, "none")
        /\ lastPatch' = Patched("installation_help", r)

InvokeTroubleshoot(issues) ==
    \E args \in DictsOver([issue |-> issues]) :
        \E r \in {troubleshoot(args, RawData(<<"global_data">>))} :
            /\ global_data' = Merge(global_data, r.patch)
            /\ result' = r
            /\ last' = Invocation("troubleshoot", args, r, {}, "none")
            /\ lastPatch' = Patched("troubleshoot", r)

InvokeCreateTicket ==
    \E args \in DictsOver([description |-> Descriptions,
                           priority |-> Priorities]),
       now1 \in Times, now2 \in Times :
        \E r \in {create_ticket(args, RawData(<<"global_data">>), now1, now2)} :
            /\ global_data' = Merge(global_data, r.patch)
            /\ result' = r
            /\ last' = Invocation("create_ticket", args, r, {}, "none")
            /\ lastPatch' = Patched("create_ticket", r)

InvokeReportFeedback ==
    \E args \in DictsOver([question |-> Questions, feedback |-> Feedbacks]),
       now \in Times :
        \E r \in {report_feedback(args, RawData(<<"global_data">>), now)} :
            /\ global_data' = Merge(global_data, r.patch)
            /\ result' = r
            /\ last' = Invocation("report_feedback", args, r, {}, "none")
            /\ lastPatch' = Patched("report_feedback", r)

InvokeEscalateToHuman ==
    \E shape \in RawDatas, now \in Times :
        \E r \in {escalate_to_human(EmptyDict, RawData(shape), now)} :
            /\ global_data' = Merge(global_data, r.patch)
            /\ result' = r
            /\ last' = Invocation("escalate_to_human", EmptyDict, r, {}, "none")
            /\ lastPatch' = Patched("escalate_to_human", r)

\* What the HTTP collaborator can answer to the handler of dm called with
\* args: an outcome only when a request is sent, a payload only with a
\* success.
Answers(dm, args) ==
    IF ~ValidArgs(dm, args) THEN {<<"none", EmptyDict>>}
    ELSE {<<"ok", payload>> : payload \in Payloads}
            \cup {<<outcome, EmptyDict>> : outcome \in Outcomes \ {"ok"}}

InvokeCheckLicense ==
    \E args \in DictsOver([license_key |-> LicenseKeys]) :
        \E answer \in Answers(check_license_dm, args) :
            \E out \in {DataMapHandler(check_license_dm, args,
                                       answer[1], answer[2])} :
                /\ global_data' = Merge(global_data, out.result.patch)
                /\ result' = out.result
                /\ last' = Invocation("check_license", args, out.result,
                                    out.requests, answer[1])
                /\ lastPatch' = Patched("check_license", out.result)

InvokeCheckVersion ==
    \E args \in DictsOver([current_version |-> Versions]) :
        \E answer \in Answers(check_version_dm, args) :
            \E out \in {DataMapHandler(check_version_dm, args,
                                       answer[1], answer[2])} :
                /\ global_data' = Merge(global_data, out.result.patch)
                /\ result' = out.result
                /\ last' = Invocation("check_version", args, out.result,
                                    out.requests, answer[1])
                /\ lastPatch' = Patched("check_version", out.result)

Next ==
    \/ InvokeInstallationHelp
    \/ InvokeTroubleshoot(ExplicitIssues)
    \/ InvokeCreateTicket
    \/ InvokeReportFeedback
    \/ InvokeEscalateToHuman
    \/ InvokeCheckLicense
    \/ InvokeCheckVersion

Spec == Init /\ [][Next]_vars

\* The keyword classifier alone, over every issue text of the bounds.
NextTroubleshoot ==
    \/ InvokeTroubleshoot(AllIssues)
    \/ InvokeInstallationHelp

SpecTroubleshoot == Init /\ [][NextTroubleshoot]_vars

----------------------------------------------------------------------------
(* Properties.                                                             *)

TicketKeys == {"ticket_id", "ticket_description", "ticket_priority", "ticket_created"}
FeedbackKeys == {"feedback_question", "feedback_content", "feedback_time"}
EscalationKeys == {"escalated", "escalation_time"}

\* C1: after every invocation the global data is the previous global data
\* with the invocation's patch applied key by key; the latest patch of every
\* tool is then wholly present with its own values, so patches of different
\* tools keep each other's keys and a tool's later patch wins over its
\* earlier one.
C1_SequentialMerge ==
    [][ /\ DOMAIN global_data' = DOMAIN global_data \cup DOMAIN result'.patch
        /\ \A k \in DOMAIN global_data' :
              global_data'[k] = IF k \in DOMAIN result'.patch
                                THEN result'.patch[k] ELSE global_data[k]
        /\ \A t \in Tools : \A p \in lastPatch'[t] : \A k \in DOMAIN p :
              k \in DOMAIN global_data' /\ global_data'[k] = p[k] ]_vars

\* A second create_ticket replaced the first one's values while the feedback
\* record of an earlier report_feedback is still there.
C1_Witness ==
    /\ last.tool = "create_ticket"
    /\ "ticket_id" \in last.replaced
    /\ FeedbackKeys \subseteq DOMAIN global_data

\* C2: an invocation that omits a required parameter returns a
\* ValidationError result, sends no HTTP request and patches nothing.
C2_MissingRequiredRejected ==
    (last.tool \in Tools /\ ~(Required(last.tool) \subseteq DOMAIN last.args))
        => /\ result.kind = "ValidationError"
           /\ last.requests = {}
           /\ DOMAIN result.patch = {}

Digits == {"0", "1", "2", "3", "4", "5", "6", "7", "8", "9"}

\* C3: create_ticket with a description answers a ticket id "TKT-" plus 14
\* digits, a text naming that id and the priority, and a patch of exactly
\* the four ticket keys carrying the given description and the given
\* priority ("medium" when omitted).
C3_CreateTicketResult ==
    (last.tool = "create_ticket" /\ "description" \in DOMAIN last.args)
        => /\ DOMAIN result.patch = TicketKeys
           /\ LET id == result.patch.ticket_id
                  priority == result.patch.ticket_priority
              IN  /\ Len(id) = 18
                  /\ SubSeq(id, 1, 4) = "TKT-"
                  /\ \A i \in 5..18 : SubSeq(id, i, i) \in Digits
                  /\ Contains(result.text, "ticket " \o id \o " ")
                  /\ Contains(result.text, "with " \o priority \o " priority")
                  /\ result.patch.ticket_description = last.args.description
                  /\ priority = IF "priority" \in DOMAIN last.args
                                THEN last.args.priority ELSE "medium"

\* create_ticket was called with a description and no priority.
C3_Witness ==
    /\ last.tool = "create_ticket"
    /\ DOMAIN last.args = {"description"}
    /\ result.patch.ticket_priority = "medium"

\* The rules of troubleshoot in declared order, and those an issue matches.
RuleWords == <<StartupWords, LicenseWords, PerformanceWords, PasswordWords>>
RuleResponses ==
    <<StartupResponse, LicenseResponse, PerformanceResponse, PasswordResponse>>
Matching(issue) ==
    {i \in 1..Len(RuleWords) : AnyWordIn(Lower(issue), RuleWords[i])}

\* C4: troubleshoot answers the response of the first rule, in declared
\* order, one of whose keywords occurs in the lower-cased issue, and the
\* generic response only when no rule matches; "my login isn't working"
\* gets the password response.
C4_FirstMatchWins ==
    last.tool = "troubleshoot"
        => LET issue == Get(last.args, "issue", "")
               m == Matching(issue)
           IN  /\ result.text =
                    IF m = {} THEN GenericResponse
                    ELSE RuleResponses[CHOOSE i \in m : \A j \in m : i <= j]
               /\ issue = "my login isn't working"
                    => result.text = PasswordResponse

\* An issue with keywords of several rules was classified.
C4_Witness ==
    /\ last.tool = "troubleshoot"
    /\ Cardinality(Matching(Get(last.args, "issue", ""))) >= 2

\* C5: when the HTTP call of check_license or check_version fails, the
\* result is an ordinary one whose text is the tool's fallback sentence, and
\* the global data is unchanged.
C5_WebhookFailureFallsBack ==
    [][ (last'.tool \in DataMapTools /\ last'.outcome \notin {"ok", "none"})
          => /\ result'.kind = "ok"
             /\ result'.text =
                  IF last'.tool = "check_license"
                  THEN "I couldn't find that license key. Please verify and try again."
                  ELSE "Unable to check version information."
             /\ global_data' = global_data ]_vars

\* check_version ran into a timeout in a conversation that has a ticket.
C5_Witness ==
    /\ last.tool = "check_version"
    /\ last.outcome = "timeout"
    /\ "ticket_id" \in DOMAIN global_data

\* C6: every escalate_to_human result is terminal, patches exactly
\* {escalated: true, escalation_time}, carries the transfer to
\* /human-support with "Goodbye!" and final, and has the same text whether
\* or not a ticket id is in the global data.
C6_EscalationTerminal ==
    last.tool = "escalate_to_human"
        => /\ result.terminal
           /\ DOMAIN result.patch = EscalationKeys
           /\ result.patch.escalated = TRUE
           /\ result.transfer = {[final |-> TRUE,
                                  target |-> "/human-support",
                                  final_message |-> "Goodbye!"]}
           /\ result.text = "I'm connecting you with a human support agent. "
                                \o "Please hold while I transfer your call."

\* escalate_to_human ran with a ticket id in the global data it was given.
C6_Witness ==
    /\ last.tool = "escalate_to_human"
    /\ "ticket_id" \in DOMAIN global_data

\* C7: report_feedback patches exactly the three feedback keys, the first
\* two with the given question and feedback, leaves the ticket keys and
\* escalated as they were (present with the same value, or absent), and its
\* result is not terminal.
C7_FeedbackFrame ==
    [][ last'.tool = "report_feedback"
          => /\ DOMAIN result'.patch = FeedbackKeys
             /\ "question" \in DOMAIN last'.args
                  => result'.patch.feedback_question = last'.args.question
             /\ "feedback" \in DOMAIN last'.args
                  => result'.patch.feedback_content = last'.args.feedback
             /\ \A k \in TicketKeys \cup {"escalated"} :
                  /\ k \in DOMAIN global_data' <=> k \in DOMAIN global_data
                  /\ k \in DOMAIN global_data
                       => global_data'[k] = global_data[k]
             /\ ~result'.terminal
             /\ result'.transfer = {} ]_vars

\* report_feedback ran in a conversation that had a ticket and was escalated.
C7_Witness ==
    /\ last.tool = "report_feedback"
    /\ DOMAIN last.args = {"question", "feedback"}
    /\ "ticket_id" \in DOMAIN global_data
    /\ "escalated" \in DOMAIN global_data

\* C8: ticket_priority, when present in the global data, is one of low,
\* medium, high, the values create_ticket declares for priority.
C8_PriorityInEnum ==
    "ticket_priority" \in DOMAIN global_data
        => /\ global_data.ticket_priority \in {"low", "medium", "high"}
           /\ global_data.ticket_priority \in PriorityEnum

\* C9: no step removes a key from the global data, no patch writes
\* escalated with a value other than true, and once escalated is true it is
\* true after every later step.
C9_EscalatedStable ==
    [][ /\ DOMAIN global_data \subseteq DOMAIN global_data'
        /\ "escalated" \in DOMAIN result'.patch
              => result'.patch.escalated = TRUE
        /\ ("escalated" \in DOMAIN global_data /\ global_data.escalated = TRUE)
              => global_data'.escalated = TRUE ]_vars

\* A ticket was created after the conversation was escalated.
C9_Witness ==
    /\ last.tool = "create_ticket"
    /\ "escalated" \in DOMAIN global_data
    /\ global_data.escalated = TRUE

\* C10: the ticket keys are present all together or not at all and carry
\* the values of the latest create_ticket patch; the same holds of the
\* feedback keys and the latest report_feedback patch.
C10_RecordsCoherent ==
    /\ \A k \in TicketKeys :
          "ticket_id" \in DOMAIN global_data <=> k \in DOMAIN global_data
    /\ "ticket_id" \in DOMAIN global_data
          => \E p \in lastPatch["create_ticket"] :
                /\ DOMAIN p = TicketKeys
                /\ \A k \in TicketKeys : global_data[k] = p[k]
    /\ \A k \in FeedbackKeys :
          "feedback_time" \in DOMAIN global_data <=> k \in DOMAIN global_data
    /\ "feedback_time" \in DOMAIN global_data
          => \E p \in lastPatch["report_feedback"] :
                /\ DOMAIN p = FeedbackKeys
                /\ \A k \in FeedbackKeys : global_data[k] = p[k]

\* A second report_feedback replaced the feedback record of the first, in a
\* conversation with a ticket.
C10_Witness ==
    /\ last.tool = "report_feedback"
    /\ last.replaced # {}
    /\ TicketKeys \subseteq DOMAIN global_data

====
